---- MODULE Spec2Model ----
(***************************************************************************)
(* Model of calameo-downloader (src/main.py): the per-URL pipeline         *)
(* main() = poll for metadata -> generate_all_page_urls ->                 *)
(* download_all_images -> convert_images_to_pdf -> cleanup_folder, run     *)
(* for every URL of the worklist by the __main__ loop.                     *)
(*                                                                         *)
(* Python strings are sequences of one-character strings, so that split,   *)
(* replace, endswith and the f-string formatting are computed, not         *)
(* assumed.  An unbound Python name is the empty sequence Unset, a bound   *)
(* one is the one-element sequence Some(v).                                *)
(***************************************************************************)
EXTENDS Integers, Sequences, FiniteSets, TLC

\* ------------------------------------------------------------------ bounds
NumUrls == 2          \* length of --book_url_list
MaxPages == 3         \* largest "Length:" value a markup carries
MaxSampleLen == 6     \* longest sample location of the expander specification
MaxCount == 2         \* largest count of the expander specification

\* ------------------------------------------------------- string primitives
Unset == << >>
Some(v) == << v >>
IsSet(o) == Len(o) = 1
Val(o) == o[1]

Digits == << "0", "1", "2", "3", "4", "5", "6", "7", "8", "9" >>

\* str(i) as the f-string "{i}" formats a positive integer
RECURSIVE Str(_)
Str(n) == IF n < 10 THEN << Digits[n + 1] >>
          ELSE Str(n \div 10) \o << Digits[(n % 10) + 1] >>

\* index of the first occurrence of sep in s, 0 when there is none
Find(s, sep) ==
    LET hits == { k \in 1..(Len(s) - Len(sep) + 1) :
                     SubSeq(s, k, k + Len(sep) - 1) = sep }
    IN  IF hits = {} THEN 0 ELSE CHOOSE k \in hits : \A j \in hits : k <= j

\* str.split(sep): the parts between the non-overlapping occurrences of sep
RECURSIVE Split(_, _)
Split(s, sep) ==
    LET j == Find(s, sep)
    IN  IF j = 0 THEN << s >>
        ELSE << SubSeq(s, 1, j - 1) >> \o Split(SubSeq(s, j + Len(sep), Len(s)), sep)

\* sep.join(parts)
RECURSIVE Join(_, _)
Join(parts, sep) ==
    IF Len(parts) = 1 THEN parts[1]
    ELSE parts[1] \o sep \o Join(Tail(parts), sep)

\* str.replace(old, new)
Replace(s, old, new) == Join(Split(s, old), new)

\* str.endswith(suffix)
EndsWith(s, suffix) ==
    /\ Len(s) >= Len(suffix)
    /\ SubSeq(s, Len(s) - Len(suffix) + 1, Len(s)) = suffix

Contains(s, sub) == Find(s, sub) # 0

Last(seq) == seq[Len(seq)]

\* ------------------------------------------------------------ the literals
Marker == << "p", "1", "." >>
Dot == << "." >>
QMark == << "?" >>
SvgzWord == << "s", "v", "g", "z" >>
JpgWord == << "j", "p", "g" >>
DotSvgz == << ".", "s", "v", "g", "z" >>
DotSvg == << ".", "s", "v", "g" >>
DotPng == << ".", "p", "n", "g" >>
PagePrefix == << "d", "o", "w", "n", "l", "o", "a", "d", "s", "/",
                 "p", "a", "g", "e", "_" >>

\* sample locations the rendered markup can carry in the pipeline model
SampleJpg == << "x", "/", "p", "1", ".", "j", "p", "g" >>
SampleSvgz == << "x", "/", "p", "1", ".", "s", "v", "g", "z" >>
SampleQuery == << "x", "/", "p", "1", ".", "j", "p", "g", "?", "v" >>
SampleNoMarker == << "x", "/", "p", "2", ".", "j", "p", "g" >>
SampleTwoMarkers == << "p", "1", ".", "x", "/", "p", "1", ".", "j", "p", "g" >>
Samples == { SampleJpg, SampleSvgz, SampleQuery, SampleNoMarker, SampleTwoMarkers }

\* ------------------------------------------------------------ Page Locator
DefaultTitle == "CalameoBook"
Titles == { "T" }

Markups ==
    { [meta |-> "absent", hasTitle |-> FALSE, title |-> "T",
       lengthKind |-> "absent", length |-> 0, img |-> "absent", src |-> SampleJpg],
      [meta |-> "nocontent", hasTitle |-> FALSE, title |-> "T",
       lengthKind |-> "absent", length |-> 0, img |-> "absent", src |-> SampleJpg] }
    \cup
    [ meta : {"present"}, hasTitle : BOOLEAN, title : Titles,
      lengthKind : {"absent", "garbage"}, length : {0},
      img : {"present"}, src : {SampleJpg} ]
    \cup
    [ meta : {"present"}, hasTitle : BOOLEAN, title : Titles,
      lengthKind : {"int"}, length : (-1)..MaxPages,
      img : {"absent", "nosrc"}, src : {SampleJpg} ]
    \cup
    [ meta : {"present"}, hasTitle : BOOLEAN, title : Titles,
      lengthKind : {"int"}, length : (-1)..MaxPages,
      img : {"present"}, src : Samples ]

Raised(e) == [ok |-> FALSE, err |-> e, title |-> DefaultTitle, length |-> 0,
              first_page_url |-> << >>]

parse_document_info(soup) ==
    IF soup.meta = "absent" THEN Raised("NotReady")
    ELSE IF soup.meta = "nocontent" THEN Raised("KeyError")
    ELSE IF soup.lengthKind = "garbage" THEN Raised("ValueError")
    ELSE IF soup.lengthKind = "absent" THEN Raised("MissingLength")
    ELSE IF soup.img = "absent" THEN Raised("MissingPageElement")
    ELSE IF soup.img = "nosrc" THEN Raised("KeyError")
    ELSE [ok |-> TRUE, err |-> "none",
          title |-> IF soup.hasTitle THEN soup.title ELSE DefaultTitle,
          length |-> soup.length,
          first_page_url |-> soup.src]

\* -------------------------------------------------------- Location Expander
generate_all_page_urls(first_page_url, total_pages) ==
    LET parts == Split(first_page_url, Marker)
    IN  IF Len(parts) # 2
        THEN [ok |-> FALSE, urls |-> << >>]
        ELSE [ok |-> TRUE,
              urls |-> [ k \in 1..(IF total_pages > 0 THEN total_pages ELSE 0) |->
                           parts[1] \o << "p" >> \o Str(k) \o Dot \o parts[2] ]]

\* ------------------------------------------------------------------- state
VARIABLES cur, only_pdf, cleanup, pc, driver, quits, lastPoll,
          title, page_count, first_page_url, all_urls,
          i, image_paths, obtained, visited, failed, dirExists, files,
          idx, canvas, pages, rasterOps, outputs,
          listing, cleanupReturned, error, trace

vars == << cur, only_pdf, cleanup, pc, driver, quits, lastPoll,
           title, page_count, first_page_url, all_urls,
           i, image_paths, obtained, visited, failed, dirExists, files,
           idx, canvas, pages, rasterOps, outputs,
           listing, cleanupReturned, error, trace >>

descVars == << title, page_count, first_page_url >>
fetchVars == << i, image_paths, obtained, visited, failed >>
fsVars == << dirExists, files >>
pdfVars == << idx, canvas, pages, rasterOps >>
cleanVars == << listing, cleanupReturned >>
cliVars == << only_pdf, cleanup >>

Goto(p) == /\ pc' = p
           /\ trace' = Append(trace, p)

Raise(e) == /\ pc' = "Failed"
            /\ error' = e
            /\ trace' = Append(trace, "Failed")

PipelineInit ==
    /\ cur = 1
    /\ only_pdf \in BOOLEAN
    /\ cleanup \in BOOLEAN
    /\ pc = "Init"
    /\ driver = "none"
    /\ quits = 0
    /\ lastPoll = "none"
    /\ title = Unset
    /\ page_count = Unset
    /\ first_page_url = Unset
    /\ all_urls = << >>
    /\ i = 0
    /\ image_paths = << >>
    /\ obtained = << >>
    /\ visited = << >>
    /\ failed = {}
    /\ dirExists = FALSE
    /\ files = {}
    /\ idx = 0
    /\ canvas = Unset
    /\ pages = << >>
    /\ rasterOps = {}
    /\ outputs = << >>
    /\ listing = Unset
    /\ cleanupReturned = FALSE
    /\ error = "none"
    /\ trace = << "Init" >>

\* ------------------------------------------------------ Session Orchestrator
\* main(): driver = setup_driver()
SetupDriver ==
    /\ pc = "Init"
    /\ driver' = "open"
    /\ Goto("NavigatePending")
    /\ UNCHANGED << cur, cliVars, quits, lastPoll, descVars, all_urls, fetchVars,
                    fsVars, pdfVars, outputs, cleanVars, error >>

\* main(): driver.get(calameo_url); title = None
Navigate ==
    /\ pc = "NavigatePending"
    /\ title' = Unset
    /\ Goto("PollingForMetadata")
    /\ UNCHANGED << cur, cliVars, driver, quits, lastPoll, page_count, first_page_url,
                    all_urls, fetchVars, fsVars, pdfVars, outputs, cleanVars, error >>

\* Poll with the three names bound one at a time, the title before the rest
\* of the markup is parsed
Poll_PartialAssign ==
    /\ pc = "PollingForMetadata"
    /\ title = Unset
    /\ \E soup \in Markups :
         LET r == parse_document_info(soup)
         IN  IF r.ok
             THEN /\ title' = Some(r.title)
                  /\ page_count' = Some(r.length)
                  /\ first_page_url' = Some(r.first_page_url)
                  /\ lastPoll' = "ok"
                  /\ Goto("MetadataReady")
             ELSE /\ lastPoll' = r.err
                  /\ IF r.err = "MissingPageElement"
                     THEN /\ title' = Some(DefaultTitle)
                          /\ page_count' = Some(soup.length)
                          /\ UNCHANGED first_page_url
                     ELSE UNCHANGED descVars
                  /\ UNCHANGED << pc, trace >>
    /\ UNCHANGED << cur, cliVars, driver, quits, all_urls, fetchVars,
                    fsVars, pdfVars, outputs, cleanVars, error >>

\* main(): one iteration of "while title is None"
Poll ==
    /\ pc = "PollingForMetadata"
    /\ title = Unset
    /\ \E soup \in Markups :
         LET r == parse_document_info(soup)
         IN  IF r.ok
             THEN /\ title' = Some(r.title)
                  /\ page_count' = Some(r.length)
                  /\ first_page_url' = Some(r.first_page_url)
                  /\ lastPoll' = "ok"
                  /\ Goto("MetadataReady")
             ELSE /\ lastPoll' = r.err
                  /\ UNCHANGED << descVars, pc, trace >>
    /\ UNCHANGED << cur, cliVars, driver, quits, all_urls, fetchVars,
                    fsVars, pdfVars, outputs, cleanVars, error >>

\* main(): driver.quit()
DriverQuit ==
    /\ pc = "MetadataReady"
    /\ driver' = "quit"
    /\ quits' = quits + 1
    /\ Goto("Expanding")
    /\ UNCHANGED << cur, cliVars, lastPoll, descVars, all_urls, fetchVars,
                    fsVars, pdfVars, outputs, cleanVars, error >>

\* the argument main() passes to generate_all_page_urls
ExpandArg ==
    IF only_pdf THEN Replace(Val(first_page_url), SvgzWord, JpgWord)
    ELSE Val(first_page_url)

\* main(): Step 2
Expand ==
    /\ pc = "Expanding"
    /\ LET r == generate_all_page_urls(ExpandArg, Val(page_count))
       IN  IF r.ok
           THEN /\ all_urls' = r.urls
                /\ Goto("Fetching")
                /\ UNCHANGED error
           ELSE /\ Raise("ValueError")
                /\ UNCHANGED all_urls
    /\ i' = 0
    /\ UNCHANGED << cur, cliVars, driver, quits, lastPoll, descVars,
                    image_paths, obtained, visited, failed,
                    fsVars, pdfVars, outputs, cleanVars >>

\* ------------------------------------------------------------------ Fetcher
\* the scratch file name download_all_images derives for page k of url
PageFile(url, k) ==
    LET ext == Last(Split(url, Dot))
    IN  PagePrefix \o Str(k) \o Dot \o Split(ext, QMark)[1]

Exists(path) == \E f \in files : f.path = path

FileAt(path) == CHOOSE f \in files : f.path = path

\* open(path, "wb") + write: the file now holds page k fetched for document u
WriteFile(fs, path, u, k) ==
    { f \in fs : f.path # path } \cup { [path |-> path, owner |-> u, page |-> k] }

\* download_all_images: os.makedirs(..., exist_ok=True); image_paths = []
FetchBegin ==
    /\ pc = "Fetching"
    /\ i = 0
    /\ dirExists' = TRUE
    /\ image_paths' = << >>
    /\ obtained' = << >>
    /\ visited' = << >>
    /\ failed' = {}
    /\ i' = 1
    /\ UNCHANGED << cur, cliVars, pc, trace, driver, quits, lastPoll, descVars, all_urls,
                    files, pdfVars, outputs, cleanVars, error >>

\* FetchPage with the except clause ending the loop instead of continuing
FetchPage_AbortOnError ==
    /\ pc = "Fetching"
    /\ i >= 1
    /\ i <= Len(all_urls)
    /\ LET filename == PagePrefix \o Str(i) \o Dot
                         \o Split(Last(Split(all_urls[i], Dot)), QMark)[1]
       IN  IF \E f \in files : f.path = filename
           THEN /\ image_paths' = Append(image_paths, filename)
                /\ obtained' = Append(obtained, i)
                /\ i' = i + 1
                /\ UNCHANGED << files, failed >>
           ELSE \E outcome \in {"ok", "error"} :
                  IF outcome = "ok"
                  THEN /\ files' = { f \in files : f.path # filename }
                                     \cup { [path |-> filename, owner |-> cur, page |-> i] }
                       /\ image_paths' = Append(image_paths, filename)
                       /\ obtained' = Append(obtained, i)
                       /\ i' = i + 1
                       /\ UNCHANGED failed
                  ELSE /\ failed' = failed \cup {i}
                       /\ i' = Len(all_urls) + 1
                       /\ UNCHANGED << files, image_paths, obtained >>
    /\ visited' = Append(visited, i)
    /\ UNCHANGED << cur, cliVars, pc, trace, driver, quits, lastPoll, descVars, all_urls,
                    dirExists, pdfVars, outputs, cleanVars, error >>

\* download_all_images: one iteration of the for loop (page i, 1-based)
FetchPage ==
    /\ pc = "Fetching"
    /\ i >= 1
    /\ i <= Len(all_urls)
    /\ LET filename == PageFile(all_urls[i], i)
       IN  IF Exists(filename)
           THEN /\ image_paths' = Append(image_paths, filename)
                /\ obtained' = Append(obtained, i)
                /\ UNCHANGED << files, failed >>
           ELSE \E outcome \in {"ok", "error"} :
                  IF outcome = "ok"
                  THEN /\ files' = WriteFile(files, filename, cur, i)
                       /\ image_paths' = Append(image_paths, filename)
                       /\ obtained' = Append(obtained, i)
                       /\ UNCHANGED failed
                  ELSE /\ failed' = failed \cup {i}
                       /\ UNCHANGED << files, image_paths, obtained >>
    /\ visited' = Append(visited, i)
    /\ i' = i + 1
    /\ UNCHANGED << cur, cliVars, pc, trace, driver, quits, lastPoll, descVars, all_urls,
                    dirExists, pdfVars, outputs, cleanVars, error >>

\* download_all_images: return image_paths; main(): Step 4 begins
FetchEnd ==
    /\ pc = "Fetching"
    /\ i > Len(all_urls)
    /\ idx' = 0
    /\ Goto("Assembling")
    /\ UNCHANGED << cur, cliVars, driver, quits, lastPoll, descVars, all_urls, fetchVars,
                    fsVars, canvas, pages, rasterOps, outputs, cleanVars, error >>

\* ---------------------------------------------------------------- Assembler
\* the test convert_images_to_pdf applies before cairosvg.svg2png
IsVectorPath(image_path) ==
    EndsWith(image_path, DotSvgz) \/ EndsWith(image_path, DotSvg)

PngPath(image_path) == Replace(Replace(image_path, DotSvgz, DotPng), DotSvg, DotPng)

\* AssembleCover with an empty asset list treated as an empty document
AssembleCover_GuardEmpty ==
    /\ pc = "Assembling"
    /\ idx = 0
    /\ IF image_paths = << >>
       THEN /\ idx' = 1
            /\ pages' = << >>
            /\ UNCHANGED << canvas, rasterOps, pc, trace, error >>
       ELSE /\ rasterOps' = rasterOps \cup { image_paths[1] }
            /\ IF IsVectorPath(image_paths[1])
               THEN /\ Raise("UnidentifiedImageError")
                    /\ UNCHANGED << idx, canvas, pages >>
               ELSE /\ canvas' = Some(image_paths[1])
                    /\ pages' = << >>
                    /\ idx' = 1
                    /\ UNCHANGED << pc, trace, error >>
    /\ UNCHANGED << cur, cliVars, driver, quits, lastPoll, descVars, all_urls, fetchVars,
                    fsVars, outputs, cleanVars >>

\* convert_images_to_pdf: cover = Image.open(image_paths[0]); FPDF(format=cover.size)
AssembleCover ==
    /\ pc = "Assembling"
    /\ idx = 0
    /\ IF image_paths = << >>
       THEN /\ Raise("IndexError")
            /\ UNCHANGED << idx, canvas, pages, rasterOps >>
       ELSE /\ rasterOps' = rasterOps \cup { image_paths[1] }
            /\ IF IsVectorPath(image_paths[1])
               THEN /\ Raise("UnidentifiedImageError")
                    /\ UNCHANGED << idx, canvas, pages >>
               ELSE /\ canvas' = Some(image_paths[1])
                    /\ pages' = << >>
                    /\ idx' = 1
                    /\ UNCHANGED << pc, trace, error >>
    /\ UNCHANGED << cur, cliVars, driver, quits, lastPoll, descVars, all_urls, fetchVars,
                    fsVars, outputs, cleanVars >>

\* convert_images_to_pdf: one iteration of the for loop (asset idx, 1-based)
AssemblePage ==
    /\ pc = "Assembling"
    /\ idx >= 1
    /\ idx <= Len(image_paths)
    /\ LET src == image_paths[idx]
           vector == IsVectorPath(src)
           image_path == IF vector THEN PngPath(src) ELSE src
           content == FileAt(src)
       IN  /\ files' = IF vector
                       THEN WriteFile(files, image_path, content.owner, content.page)
                       ELSE files
           /\ rasterOps' = rasterOps \cup { image_path }
           /\ pages' = Append(pages, [path |-> image_path, owner |-> content.owner,
                                      page |-> content.page, canvas |-> Val(canvas)])
    /\ idx' = idx + 1
    /\ UNCHANGED << cur, cliVars, pc, trace, driver, quits, lastPoll, descVars, all_urls,
                    fetchVars, dirExists, canvas, outputs, cleanVars, error >>

\* AssembleOutput with cleanup run whether or not it was requested
AssembleOutput_AlwaysCleanup ==
    /\ pc = "Assembling"
    /\ idx > Len(image_paths)
    /\ outputs' = Append(outputs, [url |-> cur, title |-> Val(title), pages |-> pages])
    /\ Goto("CleaningUp")
    /\ listing' = Unset
    /\ UNCHANGED << cur, cliVars, driver, quits, lastPoll, descVars, all_urls, fetchVars,
                    fsVars, pdfVars, cleanupReturned, error >>

\* convert_images_to_pdf: pdf.output(out_pdf); main(): "if cleanup:"
AssembleOutput ==
    /\ pc = "Assembling"
    /\ idx > Len(image_paths)
    /\ outputs' = Append(outputs, [url |-> cur, title |-> Val(title), pages |-> pages])
    /\ IF cleanup THEN Goto("CleaningUp") ELSE Goto("Done")
    /\ listing' = Unset
    /\ UNCHANGED << cur, cliVars, driver, quits, lastPoll, descVars, all_urls, fetchVars,
                    fsVars, pdfVars, cleanupReturned, error >>

\* ------------------------------------------------------------------ cleanup
\* cleanup_folder: os.listdir(folder)
CleanupList ==
    /\ pc = "CleaningUp"
    /\ listing = Unset
    /\ listing' = Some({ f.path : f \in files })
    /\ UNCHANGED << cur, cliVars, pc, trace, driver, quits, lastPoll, descVars, all_urls,
                    fetchVars, fsVars, pdfVars, outputs, cleanupReturned, error >>

\* cleanup_folder: os.remove(os.path.join(folder, file)) for one listed entry
CleanupRemove ==
    /\ pc = "CleaningUp"
    /\ IsSet(listing)
    /\ \E file \in Val(listing) : \E outcome \in {"ok", "error"} :
         IF outcome = "ok"
         THEN /\ files' = { f \in files : f.path # file }
              /\ listing' = Some(Val(listing) \ {file})
              /\ UNCHANGED << pc, trace, error >>
         ELSE /\ Raise("FileSystemError")
              /\ UNCHANGED << files, listing >>
    /\ UNCHANGED << cur, cliVars, driver, quits, lastPoll, descVars, all_urls,
                    fetchVars, dirExists, pdfVars, outputs, cleanupReturned >>

\* CleanupRmdir with the failure of os.rmdir ignored
CleanupRmdir_IgnoreError ==
    /\ pc = "CleaningUp"
    /\ listing = Some({})
    /\ \E outcome \in {"ok", "error"} :
         /\ dirExists' = IF outcome = "ok" /\ files = {} THEN FALSE ELSE dirExists
         /\ cleanupReturned' = TRUE
         /\ Goto("Done")
         /\ UNCHANGED error
    /\ UNCHANGED << cur, cliVars, driver, quits, lastPoll, descVars, all_urls,
                    fetchVars, files, pdfVars, outputs, listing >>

\* cleanup_folder: os.rmdir(folder), then return
CleanupRmdir ==
    /\ pc = "CleaningUp"
    /\ listing = Some({})
    /\ \E outcome \in {"ok", "error"} :
         IF outcome = "ok" /\ files = {}
         THEN /\ dirExists' = FALSE
              /\ cleanupReturned' = TRUE
              /\ Goto("Done")
              /\ UNCHANGED error
         ELSE /\ Raise("FileSystemError")
              /\ UNCHANGED << dirExists, cleanupReturned >>
    /\ UNCHANGED << cur, cliVars, driver, quits, lastPoll, descVars, all_urls,
                    fetchVars, files, pdfVars, outputs, listing >>

\* ------------------------------------------------------------ __main__ loop
\* "for url in book_url_list: main(url, only_pdf, cleanup)": main returned
NextUrl ==
    /\ pc = "Done"
    /\ IF cur < NumUrls
       THEN /\ cur' = cur + 1
            /\ pc' = "Init"
            /\ trace' = << "Init" >>
            /\ driver' = "none"
            /\ quits' = 0
            /\ lastPoll' = "none"
            /\ title' = Unset
            /\ page_count' = Unset
            /\ first_page_url' = Unset
            /\ all_urls' = << >>
            /\ i' = 0
            /\ image_paths' = << >>
            /\ obtained' = << >>
            /\ visited' = << >>
            /\ failed' = {}
            /\ idx' = 0
            /\ canvas' = Unset
            /\ pages' = << >>
            /\ rasterOps' = {}
            /\ listing' = Unset
            /\ cleanupReturned' = FALSE
       ELSE /\ Goto("Exit")
            /\ UNCHANGED << cur, driver, quits, lastPoll, descVars, all_urls, fetchVars,
                            pdfVars, cleanVars >>
    /\ UNCHANGED << cliVars, fsVars, outputs, error >>

Init == PipelineInit

Next ==
    \/ SetupDriver \/ Navigate \/ Poll \/ DriverQuit \/ Expand
    \/ FetchBegin \/ FetchPage \/ FetchEnd
    \/ AssembleCover \/ AssemblePage \/ AssembleOutput
    \/ CleanupList \/ CleanupRemove \/ CleanupRmdir
    \/ NextUrl

\* the whole program: every URL of the worklist through main()
Spec == Init /\ [][Next]_vars

\* ------------------------------------------- the expander on its own inputs
ExpandAlphabet == { "p", "1", ".", "j" }

ExpandSamples == UNION { [1..n -> ExpandAlphabet] : n \in 0..MaxSampleLen }

\* main() at Step 2 with an arbitrary descriptor
ExpandInit ==
    /\ cur = 1
    /\ only_pdf = FALSE
    /\ cleanup = FALSE
    /\ pc = "Expanding"
    /\ driver = "quit"
    /\ quits = 1
    /\ lastPoll = "ok"
    /\ title = Some(DefaultTitle)
    /\ page_count \in { Some(n) : n \in 0..MaxCount }
    /\ first_page_url \in { Some(s) : s \in ExpandSamples }
    /\ all_urls = << >>
    /\ i = 0
    /\ image_paths = << >>
    /\ obtained = << >>
    /\ visited = << >>
    /\ failed = {}
    /\ dirExists = FALSE
    /\ files = {}
    /\ idx = 0
    /\ canvas = Unset
    /\ pages = << >>
    /\ rasterOps = {}
    /\ outputs = << >>
    /\ listing = Unset
    /\ cleanupReturned = FALSE
    /\ error = "none"
    /\ trace = << "Init", "NavigatePending", "PollingForMetadata", "MetadataReady",
                  "Expanding" >>

SpecExpand == ExpandInit /\ [][Expand]_vars

\* ------------------------------------------------------------------ helpers
Range(seq) == { seq[k] : k \in DOMAIN seq }

RECURSIVE Ascending(_)
Ascending(S) ==
    IF S = {} THEN << >>
    ELSE LET m == CHOOSE x \in S : \A y \in S : x <= y
         IN  << m >> \o Ascending(S \ {m})

Entered(p) == p \in Range(trace)

\* the sample with its first marker occurrence replaced by index k
ReplaceFirstMarker(sample, k) ==
    LET j == Find(sample, Marker)
    IN  SubSeq(sample, 1, j - 1) \o << "p" >> \o Str(k) \o Dot
          \o SubSeq(sample, j + Len(Marker), Len(sample))

\* ------------------------------------------------------------------- claims

\* C1: download_all_images visits every location exactly once in ascending
\* index order, a failed index does not stop the later ones, and the returned
\* paths are exactly the obtained (not failed) indices in ascending order,
\* each once; the assembled document has one page per returned path, in order.
C1_FetchOrder ==
    /\ (pc = "Fetching" /\ i >= 1) =>
          /\ visited = [k \in 1..(i - 1) |-> k]
          /\ obtained = Ascending((1..(i - 1)) \ failed)
    /\ Entered("Assembling") =>
          /\ visited = [k \in 1..Len(all_urls) |-> k]
          /\ obtained = Ascending((1..Len(all_urls)) \ failed)
    /\ Len(image_paths) = Len(obtained)
    /\ \A k \in DOMAIN image_paths :
          image_paths[k] = PageFile(all_urls[obtained[k]], obtained[k])
    /\ pc \in {"CleaningUp", "Done", "Exit"} =>
          /\ Len(pages) = Len(obtained)
          /\ \A k \in DOMAIN pages : pages[k].page = obtained[k]

\* three locations, the second fails: assets 1 and 3, a two-page document
C1_Witness ==
    /\ pc = "Done"
    /\ Len(all_urls) = 3
    /\ failed = {2}
    /\ obtained = << 1, 3 >>
    /\ Len(pages) = 2

\* C2: every page of the output document of URL u is an asset fetched for u
\* during u's own run, never a scratch file of an earlier URL.
C2_NoSharedAsset ==
    \A n \in DOMAIN outputs :
       \A k \in DOMAIN outputs[n].pages :
          outputs[n].pages[k].owner = outputs[n].url

\* C3: generate_all_page_urls returns for every sample that contains "p1."
\* (also more than once) and raises exactly when the sample lacks it.
C3_TotalOnMarker ==
    (pc # "Expanding") =>
       ((pc = "Failed") <=> ~Contains(Val(first_page_url), Marker))

\* C4: for a sample containing the marker and count >= 1 the expander returns
\* exactly count locations, location k being the sample with only the marker
\* replaced by k.
C4_ExactExpansion ==
    (pc # "Expanding" /\ Contains(Val(first_page_url), Marker)
       /\ Val(page_count) >= 1) =>
       /\ pc = "Fetching"
       /\ Len(all_urls) = Val(page_count)
       /\ \A k \in 1..Val(page_count) :
             all_urls[k] = ReplaceFirstMarker(Val(first_page_url), k)

\* C5: while polling no descriptor field is set and the session is open; a
\* failed locate leaves the orchestrator polling; the session is terminated
\* exactly once, after the successful locate and before expansion starts.
C5_PollingSession ==
    /\ pc \in {"Init", "NavigatePending"} => quits = 0
    /\ pc = "PollingForMetadata" =>
          /\ title = Unset /\ page_count = Unset /\ first_page_url = Unset
          /\ driver = "open" /\ quits = 0
    /\ lastPoll \notin {"none", "ok"} => pc = "PollingForMetadata"
    /\ pc = "MetadataReady" =>
          /\ IsSet(title) /\ IsSet(page_count) /\ IsSet(first_page_url)
          /\ lastPoll = "ok" /\ driver = "open" /\ quits = 0
          /\ ~Entered("Expanding")
    /\ Entered("Expanding") =>
          /\ Entered("MetadataReady")
          /\ driver = "quit" /\ quits = 1

\* the locator failed on a rendered page without a length, for the second URL
C5_Witness ==
    /\ cur = 2
    /\ pc = "PollingForMetadata"
    /\ lastPoll = "MissingLength"
    /\ driver = "open"

\* C6: CleaningUp is entered only when cleanup was requested; when
\* cleanup_folder has returned, no scratch file and no scratch directory are
\* left; an obstructed removal ends the run with an error, not with Done.
C6_Cleanup ==
    /\ Entered("CleaningUp") => cleanup
    /\ cleanupReturned => (files = {} /\ ~dirExists /\ pc \in {"Done", "Exit"})
    /\ (Entered("CleaningUp") /\ pc \in {"Done", "Exit"}) => cleanupReturned
    /\ error = "FileSystemError" =>
          (pc = "Failed" /\ ~cleanupReturned /\ dirExists)

\* the first URL was cleaned up completely, the second met an entry that
\* could not be removed
C6_Witness ==
    /\ cur = 2
    /\ Len(outputs) = 2
    /\ Len(outputs[1].pages) >= 1
    /\ pc = "Failed"
    /\ error = "FileSystemError"
    /\ files # {}
    /\ \A f \in files : f.owner = 2

\* C7: no raster operation (Image.open, dimension read) is applied to an
\* .svg/.svgz asset; the first asset included.
C7_RasterizeFirst == \A p \in rasterOps : ~IsVectorPath(p)

\* C8 as stated: after MetadataReady the run never ends in an uncaught error.
C8_Unconditional == Entered("MetadataReady") => pc # "Failed"

ExpectedTrace ==
    << "Init", "NavigatePending", "PollingForMetadata", "MetadataReady",
       "Expanding", "Fetching", "Assembling" >>
      \o (IF cleanup THEN << "CleaningUp" >> ELSE << >>)
      \o << "Done", "Exit" >>

IsPrefix(a, b) == Len(a) <= Len(b) /\ a = SubSeq(b, 1, Len(a))

\* C8 amended: the states are entered in the order Init .. Assembling,
\* CleaningUp exactly when requested, Done, each at most once; the only
\* departures are uncaught errors raised in Expanding, Assembling or
\* CleaningUp, which end the run.
C8_SinglePass ==
    /\ pc = Last(trace)
    /\ IF pc = "Failed"
       THEN LET before == SubSeq(trace, 1, Len(trace) - 1)
            IN  /\ IsPrefix(before, ExpectedTrace)
                /\ Last(before) \in {"Expanding", "Assembling", "CleaningUp"}
       ELSE IsPrefix(trace, ExpectedTrace)

\* a run that went through cleanup for the last URL and left main()
C8_Witness ==
    /\ pc = "Exit"
    /\ cleanup
    /\ Entered("CleaningUp")
    /\ Len(outputs) = NumUrls
    /\ Len(outputs[NumUrls].pages) >= 2

\* C9: a descriptor that left the polling loop has pageCount >= 1.
C9_PositivePageCount == IsSet(page_count) => Val(page_count) >= 1

\* C10: when assembling starts on an empty asset list the run ends in
\* IndexError with no output document for the URL, without entering
\* CleaningUp, and nothing runs afterwards (later URLs are never started).
C10_EmptyAbortState ==
    (Entered("Assembling") /\ image_paths = << >> /\ pc # "Assembling") =>
       /\ pc = "Failed"
       /\ error = "IndexError"
       /\ ~Entered("CleaningUp")
       /\ \A n \in DOMAIN outputs : outputs[n].url # cur

C10_EmptyAbort == [] C10_EmptyAbortState /\ [][pc # "Failed"]_vars

\* every fetch of the first URL failed, cleanup was requested, a URL remains
C10_Witness ==
    /\ pc = "Failed"
    /\ error = "IndexError"
    /\ cleanup
    /\ cur < NumUrls
    /\ failed # {}
    /\ image_paths = << >>
    /\ files = {}

====
